---- MODULE Spec2Model ----
(***************************************************************************)
(* A model of the OpenStates MCP adapter: the process-wide configuration   *)
(* and its construction from the environment, the tool registry wired by   *)
(* setup(), the eleven resource tool handlers of app/tools (bills, people, *)
(* committees, events, jurisdictions), the upstream GET each one issues,   *)
(* and the status tool of app/server.py.                                   *)
(*                                                                         *)
(* Python values are tagged records [t |-> <type>, v |-> <value>] so that  *)
(* None, strings, booleans, numbers and lists can sit in one dictionary.   *)
(***************************************************************************)
EXTENDS Integers, Sequences, FiniteSets, TLC

VARIABLES
    config,   \* the global Config instance (app/config.py)
    inv,      \* the resource invocations being served: slot -> invocation
    net,      \* GET requests issued to the upstream and not yet answered
    status,   \* the status tool's invocation
    mcp       \* the main FastMCP instance: its tool registry and the imports done

vars == <<config, inv, net, status, mcp>>

-----------------------------------------------------------------------------
(* Bounds of the model *)

\* optional arguments of one call that differ from their default
MaxNonDefault == 1
\* length of a list-valued argument
MaxListLen == 2
\* largest page number a caller asks for
MaxPage == 2
\* per_page values are taken this far on either side of the limit
PerPageSlack == 2
\* number of items in an upstream "results" list
MaxResults == 2

-----------------------------------------------------------------------------
(* Python values *)

NoneV == [t |-> "none", v |-> 0]
StrV(s) == [t |-> "str", v |-> s]
IntV(n) == [t |-> "int", v |-> n]
FloatV(n) == [t |-> "float", v |-> n]
BoolV(b) == [t |-> "bool", v |-> b]
ListV(q) == [t |-> "list", v |-> q]
\* a fastmcp Context object
CtxV == [t |-> "context", v |-> 0]

\* Python truth value testing, as used by `if value`, `if include:` and
\* `not config.openstates_api_key`
Truthy(x) ==
    CASE x.t = "none"  -> FALSE
      [] x.t = "str"   -> x.v # ""
      [] x.t = "int"   -> x.v # 0
      [] x.t = "float" -> x.v # 0
      [] x.t = "bool"  -> x.v
      [] x.t = "list"  -> Len(x.v) > 0
      [] OTHER         -> TRUE

Range(s) == {s[i] : i \in DOMAIN s}

\* the empty dict
EmptyDict == [k \in {} |-> NoneV]

\* dict.update(new): keys of new are added or overwritten
DictUpdate(d, new) ==
    [k \in (DOMAIN d) \cup (DOMAIN new) |-> IF k \in DOMAIN new THEN new[k] ELSE d[k]]

\* a variant that keeps a value once: a set-like parameter
SetDefaultAppendUnique(d, key, item) ==
    IF key \in DOMAIN d
    THEN IF item \in Range(d[key].v) THEN d
         ELSE [d EXCEPT ![key] = ListV(Append(@.v, item))]
    ELSE DictUpdate(d, key :> ListV(<<item>>))

\* params.setdefault(key, []).append(item)
SetDefaultAppend(d, key, item) ==
    IF key \in DOMAIN d
    THEN [d EXCEPT ![key] = ListV(Append(@.v, item))]
    ELSE DictUpdate(d, key :> ListV(<<item>>))

-----------------------------------------------------------------------------
(* The eleven resource operations and their signatures *)

ListOps == {"search_bills", "search_people", "search_committees",
            "search_events", "get_jurisdictions"}

GetOps == {"get_bill_by_id", "get_bill_details", "get_committee_details",
           "get_event_details", "get_jurisdiction_details"}

GeoOps == {"get_legislators_by_location"}

Ops == ListOps \cup GetOps \cup GeoOps

\* the param_fields dict of a list operation, in source order
ScalarFields(op) ==
    CASE op = "search_bills" ->
            <<"jurisdiction", "session", "chamber", "classification",
              "updated_since", "created_since", "action_since", "sort",
              "sponsor", "sponsor_classification", "q">>
      [] op = "search_people" ->
            <<"jurisdiction", "name", "org_classification", "district">>
      [] op = "search_committees" ->
            <<"jurisdiction", "classification", "parent", "chamber">>
      [] op = "search_events" ->
            <<"jurisdiction", "deleted", "before", "after", "require_bills">>
      [] op = "get_jurisdictions" -> <<"classification">>
      [] OTHER -> <<>>

\* the list-valued parameters, in the order the handler treats them
ListFields(op) ==
    CASE op = "search_bills"  -> <<"identifier", "subject", "include">>
      [] op = "search_people" -> <<"id", "include">>
      [] op \in {"search_committees", "search_events", "get_jurisdictions"} ->
            <<"include">>
      [] op \in GetOps -> <<"include">>
      [] OTHER -> <<>>

\* the required positional parameters
RequiredFields(op) ==
    CASE op = "get_bill_by_id" -> <<"bill_uuid">>
      [] op = "get_bill_details" -> <<"jurisdiction", "session", "bill_id">>
      [] op = "get_committee_details" -> <<"committee_id">>
      [] op = "get_event_details" -> <<"event_id">>
      [] op = "get_jurisdiction_details" -> <<"jurisdiction_id">>
      [] op = "get_legislators_by_location" -> <<"latitude", "longitude">>
      [] OTHER -> <<>>

PagingFields(op) == IF op \in ListOps THEN <<"page", "per_page">> ELSE <<>>

\* every handler ends its signature with `ctx: Context | None = None`
ContextFields == {"ctx"}

ParamNames(op) ==
    Range(ScalarFields(op)) \cup Range(ListFields(op))
        \cup Range(RequiredFields(op)) \cup Range(PagingFields(op))
        \cup ContextFields

BoolFields == {"deleted", "require_bills"}

\* the upstream-imposed page size limit, min(per_page, 100)
PerPageLimit == 100
DefaultPage == 1
DefaultPerPageBills == 10
DefaultPerPagePeople == 10
DefaultPerPageCommittees == 20
DefaultPerPageEvents == 20
DefaultPerPageJurisdictions == 52

DefaultPerPage(op) ==
    CASE op = "search_bills" -> DefaultPerPageBills
      [] op = "search_people" -> DefaultPerPagePeople
      [] op = "search_committees" -> DefaultPerPageCommittees
      [] op = "search_events" -> DefaultPerPageEvents
      [] op = "get_jurisdictions" -> DefaultPerPageJurisdictions

\* the value a keyword parameter takes when the caller omits it
Default(op, name) ==
    CASE name = "page" -> IntV(DefaultPage)
      [] name = "per_page" -> IntV(DefaultPerPage(op))
      [] op = "search_bills" /\ name = "sort" -> StrV("updated_desc")
      [] op = "search_events" /\ name \in BoolFields -> BoolV(FALSE)
      [] OTHER -> NoneV

-----------------------------------------------------------------------------
(* The arguments a caller may pass *)

SeqsUpTo(S, n) == UNION {[1..k -> S] : k \in 0..n}

StrVals == {"", "x"}
\* identifiers: OCD identifiers contain "/" (ocd-jurisdiction/country:us/...)
IdVals == {"x", "x/x", "ocd-bill"}
ItemVals == {"a", "b"}
CoordVals == {-77, 0, 38}
PageVals == 0..MaxPage
PerPageVals ==
    {-1, 0, 1} \cup ((PerPageLimit - PerPageSlack)..(PerPageLimit + PerPageSlack))

\* the values of one parameter, by its declared type
ArgVals(op, name) ==
    CASE name = "page" -> {IntV(n) : n \in PageVals}
      [] name = "per_page" -> {IntV(n) : n \in PerPageVals \cup {DefaultPerPage(op)}}
      [] name \in ContextFields -> {NoneV, CtxV}
      [] name \in Range(ListFields(op)) ->
            {NoneV} \cup {ListV(q) : q \in SeqsUpTo(ItemVals, MaxListLen)}
      [] op \in GeoOps -> {FloatV(n) : n \in CoordVals}
      [] name \in Range(RequiredFields(op)) -> {StrV(s) : s \in IdVals}
      [] op = "search_events" /\ name \in BoolFields -> {BoolV(b) : b \in BOOLEAN}
      [] op = "search_bills" /\ name = "sort" ->
            {StrV(s) : s \in StrVals \cup {"updated_desc"}}
      [] OTHER -> {NoneV} \cup {StrV(s) : s \in StrVals}

OptionalNames(op) == ParamNames(op) \ Range(RequiredFields(op))

\* a call that passes the required arguments only
BaseArgs(op) ==
    {DictUpdate([n \in OptionalNames(op) |-> Default(op, n)], r) :
        r \in {f \in [Range(RequiredFields(op)) ->
                        UNION {ArgVals(op, n) : n \in Range(RequiredFields(op))}] :
                 \A n \in DOMAIN f : f[n] \in ArgVals(op, n)}}

RECURSIVE Widen(_, _, _)
\* A, and the calls that pass up to k more keyword arguments
Widen(op, A, k) ==
    IF k = 0 THEN A
    ELSE Widen(op,
               A \cup UNION {{[a EXCEPT ![n] = w] : w \in ArgVals(op, n)} :
                               <<a, n>> \in A \X OptionalNames(op)},
               k - 1)

\* the calls of op with at most MaxNonDefault keyword arguments off default
ArgSpace(op) == Widen(op, BaseArgs(op), MaxNonDefault)

\* the calls of the model, by operation
Calls == [op \in Ops |-> ArgSpace(op)]

\* the caller left the keyword argument out (Python binds the default)
Omitted(op, args, name) == args[name] = Default(op, name)

-----------------------------------------------------------------------------
(* Building the request *)

\* a variant without the limit
ClampNone(per_page) == per_page

\* min(per_page, 100)
Clamp(per_page) == IF PerPageLimit < per_page THEN PerPageLimit ELSE per_page

RECURSIVE AppendItems(_, _, _)
\* for item in <list>: params.setdefault(key, []).append(item)
AppendItems(params, key, items) ==
    IF items = <<>> THEN params
    ELSE AppendItems(SetDefaultAppend(params, key, Head(items)), key, Tail(items))

RECURSIVE AddLists(_, _, _)
\* the `if <list>:` blocks of a list operation, one per list parameter
AddLists(params, fields, args) ==
    IF fields = <<>> THEN params
    ELSE AddLists(IF Truthy(args[Head(fields)])
                  THEN AppendItems(params, Head(fields), args[Head(fields)].v)
                  ELSE params,
                  Tail(fields), args)

\* the condition of the dict comprehension over param_fields
KeepField(op, value) ==
    IF op = "search_events" THEN value # NoneV ELSE Truthy(value)

\* {key: value for key, value in param_fields.items() if <condition>}
SelectedFields(op, args) ==
    [k \in {n \in Range(ScalarFields(op)) : KeepField(op, args[n])} |-> args[k]]

\* a variant that treats page like a filter: sent only when truthy
PagingParamsIfSet(op, args) ==
    IF Truthy(args["page"])
    THEN ("page" :> args["page"]) @@ ("per_page" :> IntV(Clamp(args["per_page"].v)))
    ELSE ("per_page" :> IntV(Clamp(args["per_page"].v)))

\* params = {"page": page, "per_page": min(per_page, 100)}
PagingParams(op, args) ==
    ("page" :> args["page"]) @@ ("per_page" :> IntV(Clamp(args["per_page"].v)))

\* the params dict of a list operation
ListParams(op, args) ==
    DictUpdate(AddLists(PagingParams(op, args), ListFields(op), args),
               SelectedFields(op, args))

\* params = {}; if include: params["include"] = include
GetParams(op, args) ==
    IF Truthy(args["include"]) THEN DictUpdate(EmptyDict, "include" :> args["include"])
    ELSE EmptyDict

\* a variant with the two coordinates exchanged
GeoParamsSwapped(op, args) ==
    ("lat" :> args["longitude"]) @@ ("lng" :> args["latitude"])

\* params = {"lat": latitude, "lng": longitude}
GeoParams(op, args) ==
    ("lat" :> args["latitude"]) @@ ("lng" :> args["longitude"])

BuildParams(op, args) ==
    CASE op \in ListOps -> ListParams(op, args)
      [] op \in GetOps -> GetParams(op, args)
      [] op \in GeoOps -> GeoParams(op, args)

\* the fixed upstream host of every URL literal
ApiBase == "https://v3.openstates.org"

\* the URL literal or f-string of the client.get call: the literal pieces and
\* the interpolated arguments, in order
UrlParts(op, args) ==
    CASE op = "search_bills" -> <<StrV("/bills")>>
      [] op = "get_bill_by_id" -> <<StrV("/bills/ocd-bill/"), args["bill_uuid"]>>
      [] op = "get_bill_details" ->
            <<StrV("/bills/"), args["jurisdiction"], StrV("/"), args["session"],
              StrV("/"), args["bill_id"]>>
      [] op = "search_people" -> <<StrV("/people")>>
      [] op = "get_legislators_by_location" -> <<StrV("/people.geo")>>
      [] op = "search_committees" -> <<StrV("/committees")>>
      [] op = "get_committee_details" -> <<StrV("/committees/"), args["committee_id"]>>
      [] op = "search_events" -> <<StrV("/events")>>
      [] op = "get_event_details" -> <<StrV("/events/"), args["event_id"]>>
      [] op = "get_jurisdictions" -> <<StrV("/jurisdictions")>>
      [] op = "get_jurisdiction_details" ->
            <<StrV("/jurisdictions/"), args["jurisdiction_id"]>>

RECURSIVE Concat(_)
\* the string an f-string evaluates to: its pieces joined, nothing escaped
Concat(parts) ==
    IF parts = <<>> THEN "" ELSE Head(parts).v \o Concat(Tail(parts))

\* a variant that takes the host from config.openstates_base_url
UrlFromConfig(op, args) == config.openstates_base_url \o Concat(UrlParts(op, args))

\* the first argument of client.get
Url(op, args) == ApiBase \o Concat(UrlParts(op, args))

\* a variant that sends the key as a bearer token
HeadersBearer(api_key) == ("Authorization" :> api_key)

\* headers = {"x-api-key": api_key}
Headers(api_key) == ("x-api-key" :> api_key)

\* timeout=30.0
RequestTimeout == 30

\* client.get(url, params=params, headers={"x-api-key": api_key}, timeout=30.0)
Request(i, op, args, api_key) ==
    [slot    |-> i,
     url     |-> Url(op, args),
     params  |-> BuildParams(op, args),
     headers |-> Headers(api_key),
     timeout |-> RequestTimeout]

-----------------------------------------------------------------------------
(* Configuration *)

\* the values OPENSTATES_API_KEY may have when the process starts
ApiKeyVals == {NoneV, StrV(""), StrV("k")}

\* an environment variable: not set, a decimal numeral, or any other text
Unset == [t |-> "unset", v |-> 0]
Numeral(n) == [t |-> "numeral", v |-> n]
Text(s) == [t |-> "text", v |-> s]

\* no variable of the settings set, no .env file
EmptyEnv ==
    [OPENSTATES_API_KEY |-> Unset, MCP_PORT |-> Unset, OPENSTATES_TIMEOUT |-> Unset,
     OPENSTATES_BASE_URL |-> Unset]

\* the environments with the API key alone, or nothing, set
KeyEnvs ==
    {EmptyEnv}
        \cup {[EmptyEnv EXCEPT !.OPENSTATES_API_KEY = Text(k.v)] :
                k \in ApiKeyVals \ {NoneV}}

\* the environments the process may start in: nothing set, one of the API
\* key, the port and the timeout set, or a key together with a setting no
\* handler reads
Envs ==
    KeyEnvs
        \cup {[EmptyEnv EXCEPT !.MCP_PORT = p] : p \in {Numeral(8080), Text("http")}}
        \cup {[EmptyEnv EXCEPT !.OPENSTATES_TIMEOUT = x] :
                x \in {Numeral(60), Numeral(0), Numeral(-1), Text("soon")}}
        \cup {[EmptyEnv EXCEPT !.OPENSTATES_API_KEY = Text("k"),
                               !.OPENSTATES_TIMEOUT = Numeral(5)],
              [EmptyEnv EXCEPT !.OPENSTATES_API_KEY = Text("k"),
                               !.OPENSTATES_BASE_URL = Text("https://example.org")]}

\* the field defaults of class Config
DefaultConfig ==
    [loaded |-> TRUE, openstates_api_key |-> NoneV, host |-> "0.0.0.0",
     mcp_port |-> 8795, openstates_timeout |-> 30,
     openstates_base_url |-> "https://v3.openstates.org"]

\* Config() raised a ValidationError: importing app.config fails and the
\* process ends before anything is registered or served
FailedConfig == [DefaultConfig EXCEPT !.loaded = FALSE]

\* a field annotated `int`: a numeral is converted, any other text is rejected
IntField(x, default) ==
    CASE x.t = "unset"   -> [ok |-> TRUE, v |-> default]
      [] x.t = "numeral" -> [ok |-> TRUE, v |-> x.v]
      [] OTHER           -> [ok |-> FALSE, v |-> default]

\* a field annotated `str | None`: the text as it is
OptionalStrField(x) == IF x.t = "unset" THEN NoneV ELSE StrV(x.v)

\* a field annotated `str`: the text as it is
StrField(x, default) == IF x.t = "unset" THEN default ELSE x.v

\* config = Config(): the fields the handlers, the status tool and the tests
\* read, from the environment over the defaults
Construct(env) ==
    LET port == IntField(env.MCP_PORT, DefaultConfig.mcp_port)
        timeout == IntField(env.OPENSTATES_TIMEOUT, DefaultConfig.openstates_timeout)
    IN IF port.ok /\ timeout.ok
       THEN [DefaultConfig EXCEPT
                !.openstates_api_key = OptionalStrField(env.OPENSTATES_API_KEY),
                !.mcp_port = port.v,
                !.openstates_timeout = timeout.v,
                !.openstates_base_url =
                    StrField(env.OPENSTATES_BASE_URL, DefaultConfig.openstates_base_url)]
       ELSE FailedConfig

\* the values of config after `config = Config()`
Configs == {Construct(env) : env \in Envs}

\* the configurations of the concurrent specification: every other setting
\* at its default
ServerConfigs == {Construct(env) : env \in KeyEnvs}

-----------------------------------------------------------------------------
(* Exceptions *)

\* an exception object: its class, the place that constructed it, str(e)
ErrorObj(type, site, text, code) ==
    [type |-> type, site |-> site, text |-> text, code |-> code]

NoError == ErrorObj("none", "", "", 0)

\* raise ValueError("OPENSTATES_API_KEY not found in environment variables")
KeyMissingError ==
    ErrorObj("ValueError", "_validate_api_key",
             "OPENSTATES_API_KEY not found in environment variables", 0)

\* a variant that tests `is None` instead of truthiness
ValidateApiKeyNotNone(cfg) ==
    IF cfg.openstates_api_key = NoneV
    THEN [ok |-> FALSE, key |-> NoneV, error |-> KeyMissingError]
    ELSE [ok |-> TRUE, key |-> cfg.openstates_api_key, error |-> NoError]

\* _validate_api_key(): the key, or the ValueError it raises
ValidateApiKey(cfg) ==
    IF ~Truthy(cfg.openstates_api_key)
    THEN [ok |-> FALSE, key |-> NoneV, error |-> KeyMissingError]
    ELSE [ok |-> TRUE, key |-> cfg.openstates_api_key, error |-> NoError]

\* what the `except ValueError as e:` block of the key check raises: a bare
\* `raise` re-raises e; search_committees has `raise ValueError(e)`, a new
\* exception object whose str() is str(e)
KeyCheckRaise(op, e) ==
    IF op = "search_committees"
    THEN ErrorObj("ValueError", "search_committees", e.text, e.code)
    ELSE e

-----------------------------------------------------------------------------
(* Log lines *)

ErrV(e) == [t |-> "error", v |-> e]

\* one call of _log_info / _log_error: the level, the message template and
\* the values interpolated into it
LogLine(level, text, vals) == [level |-> level, text |-> text, vals |-> vals]

\* a variant that writes every message to the process-wide logger as well
RouteBoth(ctx, lines) ==
    IF Truthy(ctx)
    THEN [sink |-> lines, logger |-> lines]
    ELSE [sink |-> <<>>, logger |-> lines]

\* _log_info / _log_error: `if ctx: await ctx.<level>(message)` else
\* `logger.<level>(message)`; what each destination receives of lines
Route(ctx, lines) ==
    IF Truthy(ctx)
    THEN [sink |-> lines, logger |-> <<>>]
    ELSE [sink |-> <<>>, logger |-> lines]

\* the info line a handler logs first
StartLine(op, args) ==
    CASE op = "search_bills" ->
            LogLine("info", "Searching bills with jurisdiction: {}, query: {}",
                    <<args["jurisdiction"], args["q"]>>)
      [] op = "get_bill_by_id" ->
            LogLine("info", "Getting bill by UUID: {}", <<args["bill_uuid"]>>)
      [] op = "get_bill_details" ->
            LogLine("info", "Getting bill details: {}/{}/{}",
                    <<args["jurisdiction"], args["session"], args["bill_id"]>>)
      [] op = "search_people" ->
            LogLine("info", "Searching people with jurisdiction: {}, name: {}",
                    <<args["jurisdiction"], args["name"]>>)
      [] op = "get_legislators_by_location" ->
            LogLine("info", "Getting legislators for location: {}, {}",
                    <<args["latitude"], args["longitude"]>>)
      [] op = "search_committees" ->
            LogLine("info", "Searching committees for jurisdiction: {}",
                    <<args["jurisdiction"]>>)
      [] op = "get_committee_details" ->
            LogLine("info", "Getting committee details for: {}",
                    <<args["committee_id"]>>)
      [] op = "search_events" ->
            LogLine("info", "Searching events for jurisdiction: {}",
                    <<args["jurisdiction"]>>)
      [] op = "get_event_details" ->
            LogLine("info", "Getting event details for: {}", <<args["event_id"]>>)
      [] op = "get_jurisdictions" ->
            LogLine("info", "Getting list of jurisdictions with classification: {}",
                    <<args["classification"]>>)
      [] op = "get_jurisdiction_details" ->
            LogLine("info", "Getting jurisdiction details for: {}",
                    <<args["jurisdiction_id"]>>)

\* the info line of a list operation after a successful response
FoundLine(op, n) ==
    CASE op = "search_bills" -> LogLine("info", "Found {} bills", <<IntV(n)>>)
      [] op = "search_people" -> LogLine("info", "Found {} people", <<IntV(n)>>)
      [] op = "search_committees" -> LogLine("info", "Found {} committees", <<IntV(n)>>)
      [] op = "search_events" -> LogLine("info", "Found {} events", <<IntV(n)>>)
      [] op = "get_jurisdictions" ->
            LogLine("info", "Found {} jurisdictions", <<IntV(n)>>)

\* the info line of a get operation after raise_for_status()
RetrievedLine(op, args) ==
    CASE op = "get_bill_by_id" ->
            LogLine("info", "Successfully retrieved bill {}", <<args["bill_uuid"]>>)
      [] op = "get_bill_details" ->
            LogLine("info", "Successfully retrieved bill {}/{}/{}",
                    <<args["jurisdiction"], args["session"], args["bill_id"]>>)
      [] op = "get_legislators_by_location" ->
            LogLine("info", "Successfully retrieved legislators for location", <<>>)
      [] op = "get_committee_details" ->
            LogLine("info", "Successfully retrieved committee {}",
                    <<args["committee_id"]>>)
      [] op = "get_event_details" ->
            LogLine("info", "Successfully retrieved event {}", <<args["event_id"]>>)
      [] op = "get_jurisdiction_details" ->
            LogLine("info", "Successfully retrieved jurisdiction {}",
                    <<args["jurisdiction_id"]>>)

\* a variant that tests isinstance(error, httpx.HTTPError), the base class of
\* the status error and of the transport errors
ApiErrorLineBase(e) ==
    IF e.type \in {"HTTPStatusError", "ConnectError", "ReadTimeout"}
    THEN LogLine("error", "HTTP error: {}", <<ErrV(e)>>)
    ELSE LogLine("error", "API error: {}", <<ErrV(e)>>)

\* _handle_api_error: the error line, by isinstance(error, httpx.HTTPStatusError)
ApiErrorLine(e) ==
    IF e.type = "HTTPStatusError"
    THEN LogLine("error", "HTTP error: {}", <<ErrV(e)>>)
    ELSE LogLine("error", "API error: {}", <<ErrV(e)>>)

-----------------------------------------------------------------------------
(* What the upstream may answer *)

DictV(f) == [t |-> "dict", v |-> f]

\* a response body that is a JSON document; response.json() gives doc
JsonBody(doc) == [t |-> "json", v |-> doc]
\* a response body that is not JSON (empty, HTML, truncated)
RawBody == [t |-> "raw", v |-> NoneV]

ResultItem(k) == DictV([id |-> IntV(k)])

\* {"results": [...n items...], "pagination": {...}}
ResultsDoc(n) ==
    DictV([results    |-> ListV([k \in 1..n |-> ResultItem(k)]),
           pagination |-> DictV([page |-> IntV(1), total_items |-> IntV(n)])])

\* the JSON documents of the model: result pages, a single record, an object
\* whose results is null, and an array
JsonDocs ==
    {ResultsDoc(n) : n \in 0..MaxResults}
        \cup {DictV([id |-> StrV("x")]),
              DictV([results |-> NoneV]),
              ListV(<<ResultItem(1)>>)}

ErrorCodes == {300, 404, 500}
TransportFaults == {"ConnectError", "ReadTimeout"}

HttpAnswer(code, body) ==
    [kind |-> "response", code |-> code, body |-> body, fault |-> ""]
FailedAnswer(fault) ==
    [kind |-> "failure", code |-> 0, body |-> RawBody, fault |-> fault]
NoAnswer == [kind |-> "none", code |-> 0, body |-> RawBody, fault |-> ""]

\* the outcomes of one client.get: a response with a status and a body, or an
\* httpx transport exception (connection failure, timeout after 30 s)
Answers ==
    {HttpAnswer(200, b) : b \in {JsonBody(d) : d \in JsonDocs} \cup {RawBody}}
        \cup {HttpAnswer(299, JsonBody(ResultsDoc(0)))}
        \cup {HttpAnswer(c, JsonBody(DictV([detail |-> StrV("error")]))) :
                c \in ErrorCodes}
        \cup {FailedAnswer(f) : f \in TransportFaults}

\* response.raise_for_status() passes
IsSuccess(code) == 200 <= code /\ code <= 299

\* len(x) is defined
HasLen(x) == x.t \in {"list", "dict"}
PyLen(x) == IF x.t = "list" THEN Len(x.v) ELSE Cardinality(DOMAIN x.v)

-----------------------------------------------------------------------------
(* The handler after the request: the body of `async with` and the except  *)
(* block                                                                   *)

\* _handle_api_error(ctx, e) after the lines already logged: log, raise error
HandleApiError(logged, e) ==
    [log      |-> logged \o <<ApiErrorLine(e)>>,
     outcome  |-> "raised",
     detected |-> e,
     error    |-> e,
     result   |-> NoneV]

\* return <value> after the lines already logged
ReturnValue(logged, value) ==
    [log      |-> logged,
     outcome  |-> "returned",
     detected |-> NoError,
     error    |-> NoError,
     result   |-> value]

\* data = response.json(); _log_info(f"Found {len(data.get('results', []))} ...");
\* return data
ListSuccess(op, answer) ==
    IF answer.body.t = "raw"
    THEN HandleApiError(<<>>, ErrorObj("JSONDecodeError", "response.json", "", 0))
    ELSE LET data == answer.body.v IN
         IF data.t # "dict"
         THEN HandleApiError(<<>>, ErrorObj("AttributeError", "data.get", "", 0))
         ELSE LET results == IF "results" \in DOMAIN data.v
                             THEN data.v["results"] ELSE ListV(<<>>) IN
              IF ~HasLen(results)
              THEN HandleApiError(<<>>, ErrorObj("TypeError", "len", "", 0))
              ELSE ReturnValue(<<FoundLine(op, PyLen(results))>>, data)

\* _log_info("Successfully retrieved ..."); return response.json()
GetSuccess(op, args, answer) ==
    IF answer.body.t = "raw"
    THEN HandleApiError(<<RetrievedLine(op, args)>>,
                        ErrorObj("JSONDecodeError", "response.json", "", 0))
    ELSE ReturnValue(<<RetrievedLine(op, args)>>, answer.body.v)

\* the whole try block once client.get has an outcome
AfterGet(op, args, answer) ==
    IF answer.kind = "failure"
    THEN HandleApiError(<<>>, ErrorObj(answer.fault, "client.get", "", 0))
    ELSE IF ~IsSuccess(answer.code)
    THEN HandleApiError(<<>>, ErrorObj("HTTPStatusError", "raise_for_status", "",
                                       answer.code))
    ELSE IF op \in ListOps THEN ListSuccess(op, answer)
    ELSE GetSuccess(op, args, answer)

-----------------------------------------------------------------------------
(* The dispatcher's tool registry *)

\* a variant that imports the groups in alphabetical order
ImportOrderSorted == <<"bills", "committees", "events", "jurisdictions", "people">>

\* the groups, in the order setup() imports them
ImportOrder == <<"bills", "people", "committees", "events", "jurisdictions">>

\* the functions each sub-server registers with @<group>_server.tool()
ServerTools(group) ==
    CASE group = "bills" ->
            <<"search_bills", "get_bill_by_id", "get_bill_details">>
      [] group = "people" -> <<"search_people", "get_legislators_by_location">>
      [] group = "committees" -> <<"search_committees", "get_committee_details">>
      [] group = "events" -> <<"search_events", "get_event_details">>
      [] group = "jurisdictions" ->
            <<"get_jurisdictions", "get_jurisdiction_details">>

\* a registered tool: the server that defined it and its function
Tool(server, fn) == [server |-> server, fn |-> fn]

\* mcp after `@mcp.tool() def status`, before setup() runs
MainServer ==
    [tools    |-> ("status" :> Tool("mcp", "status")),
     imported |-> <<>>]

\* a variant that registers a sub-server's tool under its own name
UnprefixedName(prefix, name) == name

\* the name an imported tool gets: f"{prefix}_{name}"
PrefixedName(prefix, name) == prefix \o "_" \o name

\* mcp.import_server(prefix, <prefix>_server): every tool of the sub-server is
\* added to the registry of m under its prefixed name
ImportServer(m, prefix) ==
    LET fns == Range(ServerTools(prefix))
        added == [k \in {PrefixedName(prefix, f) : f \in fns} |->
                    Tool(prefix, CHOOSE f \in fns : PrefixedName(prefix, f) = k)]
    IN [tools    |-> DictUpdate(m.tools, added),
        imported |-> Append(m.imported, prefix)]

\* setup() has returned: the module is loaded and main() may serve
SetupComplete == Len(mcp.imported) = Len(ImportOrder)

-----------------------------------------------------------------------------
(* State *)

\* a slot in which no invocation is being served
IdleInv ==
    [pc       |-> "idle",     \* idle, awaiting (the GET is in flight), done
     op       |-> "",
     args     |-> EmptyDict,
     log      |-> <<>>,       \* the lines logged by this invocation, in order
     sink     |-> <<>>,       \* the lines sent to the invocation's Context
     logger   |-> <<>>,       \* the lines sent to the process-wide logger
     gets     |-> 0,          \* client.get calls made by this invocation
     client   |-> "none",     \* the httpx.AsyncClient: none, open, closed
     answer   |-> NoAnswer,   \* what the upstream answered
     outcome  |-> "none",     \* none, returned, raised
     detected |-> NoError,    \* the exception caught by the handler
     error    |-> NoError,    \* the exception raised to the caller
     result   |-> NoneV]      \* the value returned to the caller

NoSnapshot ==
    [status |-> "", service |-> "", version |-> "", tools_available |-> <<>>,
     transport |-> "", api_base |-> "", host |-> "", port |-> 0,
     api_configured |-> FALSE]

\* the status tool before it is called
IdleStatus ==
    [pc       |-> "idle",      \* idle, done
     fault    |-> "none",      \* what failed inside this invocation
     log      |-> <<>>,
     outcome  |-> "none",      \* none, returned, raised
     snapshot |-> NoSnapshot,  \* the dict returned
     error    |-> NoError]     \* the exception raised

\* the one slot of the sequential specification
OneSlot == {1}

Init ==
    /\ config \in Configs
    /\ inv = [i \in OneSlot |-> IdleInv]
    /\ net = {}
    /\ status = IdleStatus
    /\ mcp = MainServer

-----------------------------------------------------------------------------
(* Actions *)

\* a variant with a response cache: a call whose arguments equal those of an
\* earlier call that returned is served that value, without a GET
CallCached(i, op, args) ==
    /\ inv[i].pc = "idle"
    /\ LET check == ValidateApiKey(config)
           hits == {j \in DOMAIN inv :
                       /\ inv[j].pc = "done" /\ inv[j].outcome = "returned"
                       /\ inv[j].op = op /\ inv[j].args = args}
       IN
       IF ~check.ok
       THEN /\ inv' = [inv EXCEPT ![i] =
                    [IdleInv EXCEPT
                        !.pc = "done", !.op = op, !.args = args,
                        !.log = <<StartLine(op, args),
                                  LogLine("error", "{}", <<StrV(check.error.text)>>)>>,
                        !.sink = Route(args["ctx"],
                                       <<StartLine(op, args),
                                         LogLine("error", "{}",
                                                 <<StrV(check.error.text)>>)>>).sink,
                        !.logger = Route(args["ctx"],
                                         <<StartLine(op, args),
                                           LogLine("error", "{}",
                                                   <<StrV(check.error.text)>>)>>).logger,
                        !.outcome = "raised",
                        !.detected = check.error,
                        !.error = KeyCheckRaise(op, check.error)]]
            /\ net' = net
       ELSE IF hits # {}
       THEN /\ inv' = [inv EXCEPT ![i] =
                    [IdleInv EXCEPT
                        !.pc = "done", !.op = op, !.args = args,
                        !.log = <<StartLine(op, args)>>,
                        !.sink = Route(args["ctx"], <<StartLine(op, args)>>).sink,
                        !.logger = Route(args["ctx"], <<StartLine(op, args)>>).logger,
                        !.outcome = "returned",
                        !.result = inv[CHOOSE j \in hits : TRUE].result]]
            /\ net' = net
       ELSE /\ inv' = [inv EXCEPT ![i] =
                    [IdleInv EXCEPT
                        !.pc = "awaiting", !.op = op, !.args = args,
                        !.log = <<StartLine(op, args)>>,
                        !.sink = Route(args["ctx"], <<StartLine(op, args)>>).sink,
                        !.logger = Route(args["ctx"], <<StartLine(op, args)>>).logger,
                        !.gets = 1,
                        !.client = "open"]]
            /\ net' = net \cup {Request(i, op, args, check.key)}
    /\ UNCHANGED <<config, status, mcp>>

\* The handler from its first line to the first suspension: the info line,
\* the key check, the params and headers, and client.get issued.
Call(i, op, args) ==
    /\ inv[i].pc = "idle"
    /\ LET check == ValidateApiKey(config) IN
       IF ~check.ok
       THEN /\ inv' = [inv EXCEPT ![i] =
                    [IdleInv EXCEPT
                        !.pc = "done", !.op = op, !.args = args,
                        !.log = <<StartLine(op, args),
                                  LogLine("error", "{}", <<StrV(check.error.text)>>)>>,
                        !.sink = Route(args["ctx"],
                                       <<StartLine(op, args),
                                         LogLine("error", "{}",
                                                 <<StrV(check.error.text)>>)>>).sink,
                        !.logger = Route(args["ctx"],
                                         <<StartLine(op, args),
                                           LogLine("error", "{}",
                                                   <<StrV(check.error.text)>>)>>).logger,
                        !.outcome = "raised",
                        !.detected = check.error,
                        !.error = KeyCheckRaise(op, check.error)]]
            /\ net' = net
       ELSE /\ inv' = [inv EXCEPT ![i] =
                    [IdleInv EXCEPT
                        !.pc = "awaiting", !.op = op, !.args = args,
                        !.log = <<StartLine(op, args)>>,
                        !.sink = Route(args["ctx"], <<StartLine(op, args)>>).sink,
                        !.logger = Route(args["ctx"], <<StartLine(op, args)>>).logger,
                        !.gets = 1,
                        !.client = "open"]]
            /\ net' = net \cup {Request(i, op, args, check.key)}
    /\ UNCHANGED <<config, status, mcp>>

\* a variant that calls client.get a second time after a transport failure
RespondRetrying(i, answer) ==
    /\ inv[i].pc = "awaiting"
    /\ \E r \in net : r.slot = i
    /\ IF answer.kind = "failure" /\ inv[i].gets < 2
       THEN /\ inv' = [inv EXCEPT ![i].gets = @ + 1]
            /\ net' = net
       ELSE /\ LET end == AfterGet(inv[i].op, inv[i].args, answer) IN
               inv' = [inv EXCEPT ![i] =
                          [@ EXCEPT !.pc = "done",
                                    !.client = "closed",
                                    !.answer = answer,
                                    !.log = @ \o end.log,
                            !.sink = @ \o Route(inv[i].args["ctx"], end.log).sink,
                            !.logger = @ \o Route(inv[i].args["ctx"], end.log).logger,
                                    !.outcome = end.outcome,
                                    !.detected = end.detected,
                                    !.error = end.error,
                                    !.result = end.result]]
            /\ net' = {r \in net : r.slot # i}
    /\ UNCHANGED <<config, status, mcp>>

\* a variant with one module-level client shared by the handlers: a transport
\* failure closes it and with it every request in flight
RespondShared(i, answer) ==
    /\ inv[i].pc = "awaiting"
    /\ \E r \in net : r.slot = i
    /\ LET end == AfterGet(inv[i].op, inv[i].args, answer) IN
       inv' = [inv EXCEPT ![i] =
                  [@ EXCEPT !.pc = "done",
                            !.client = "closed",
                            !.answer = answer,
                            !.log = @ \o end.log,
                            !.sink = @ \o Route(inv[i].args["ctx"], end.log).sink,
                            !.logger = @ \o Route(inv[i].args["ctx"], end.log).logger,
                            !.outcome = end.outcome,
                            !.detected = end.detected,
                            !.error = end.error,
                            !.result = end.result]]
    /\ net' = IF answer.kind = "failure" THEN {} ELSE {r \in net : r.slot # i}
    /\ UNCHANGED <<config, status, mcp>>

\* a variant without `async with`: the client is closed on the return path
\* only, an exception leaves it open
RespondLeaking(i, answer) ==
    /\ inv[i].pc = "awaiting"
    /\ \E r \in net : r.slot = i
    /\ LET end == AfterGet(inv[i].op, inv[i].args, answer) IN
       inv' = [inv EXCEPT ![i] =
                  [@ EXCEPT !.pc = "done",
                            !.client = IF end.outcome = "returned"
                                       THEN "closed" ELSE "open",
                            !.answer = answer,
                            !.log = @ \o end.log,
                            !.sink = @ \o Route(inv[i].args["ctx"], end.log).sink,
                            !.logger = @ \o Route(inv[i].args["ctx"], end.log).logger,
                            !.outcome = end.outcome,
                            !.detected = end.detected,
                            !.error = end.error,
                            !.result = end.result]]
    /\ net' = {r \in net : r.slot # i}
    /\ UNCHANGED <<config, status, mcp>>

\* client.get has an outcome: the rest of the handler runs to its end, and
\* leaving `async with` closes the client.
Respond(i, answer) ==
    /\ inv[i].pc = "awaiting"
    /\ \E r \in net : r.slot = i
    /\ LET end == AfterGet(inv[i].op, inv[i].args, answer) IN
       inv' = [inv EXCEPT ![i] =
                  [@ EXCEPT !.pc = "done",
                            !.client = "closed",
                            !.answer = answer,
                            !.log = @ \o end.log,
                            !.sink = @ \o Route(inv[i].args["ctx"], end.log).sink,
                            !.logger = @ \o Route(inv[i].args["ctx"], end.log).logger,
                            !.outcome = end.outcome,
                            !.detected = end.detected,
                            !.error = end.error,
                            !.result = end.result]]
    /\ net' = {r \in net : r.slot # i}
    /\ UNCHANGED <<config, status, mcp>>

\* a variant that drops the configured key once an invocation has failed
RetireForgetKey(i) ==
    /\ inv[i].pc = "done"
    /\ inv' = [inv EXCEPT ![i] = IdleInv]
    /\ config' = IF inv[i].outcome = "raised"
                  THEN [config EXCEPT !.openstates_api_key = NoneV]
                  ELSE config
    /\ UNCHANGED <<net, status, mcp>>

\* the caller has the outcome; the slot serves the next invocation
Retire(i) ==
    /\ inv[i].pc = "done"
    /\ inv' = [inv EXCEPT ![i] = IdleInv]
    /\ UNCHANGED <<config, net, status, mcp>>

\* setup(): the next `await mcp.import_server(...)`
Setup ==
    /\ config.loaded
    /\ ~SetupComplete
    /\ mcp' = ImportServer(mcp, ImportOrder[Len(mcp.imported) + 1])
    /\ UNCHANGED <<config, inv, net, status>>

\* the resource functions the dispatcher can reach by a registered name
Dispatchable == {mcp.tools[n].fn : n \in DOMAIN mcp.tools} \cap Ops

\* a caller invokes a registered resource tool on a free slot
Invoke(i) ==
    /\ inv[i].pc = "idle"
    /\ SetupComplete
    /\ \E op \in Dispatchable : \E args \in Calls[op] : Call(i, op, args)

\* a variant with timeout=None: the call waits for the upstream without limit
TimeoutNever(i) ==
    /\ FALSE
    /\ UNCHANGED vars

\* timeout=30.0 expires on a GET the upstream has not answered: client.get
\* raises httpx.ReadTimeout
Timeout(i) ==
    /\ inv[i].pc = "awaiting"
    /\ Respond(i, FailedAnswer("ReadTimeout"))

\* the upstream answers the GET of slot i, or the GET fails
Answer(i) ==
    /\ inv[i].pc = "awaiting"
    /\ \E answer \in Answers : Respond(i, answer)

-----------------------------------------------------------------------------
(* The status tool *)

\* what may fail inside one status call: nothing, reading pyproject.toml,
\* a psutil call (create_time, memory_info, cpu_percent), or the /proc probe
\* of is_docker
StatusFaults == {"none", "version", "metrics", "probe"}

\* get_version(): the version of pyproject.toml, "unknown" on any exception
GetVersion(fault) == IF fault = "version" THEN "unknown" ELSE "0.1.0"

\* a variant that reports the service unhealthy without an API key
StatusDictKeyed(cfg, fault) ==
    [status          |-> IF Truthy(cfg.openstates_api_key) THEN "healthy" ELSE "degraded",
     service         |-> "OpenStates MCP Server",
     version         |-> GetVersion(fault),
     tools_available |-> <<"bills", "people", "committees", "events", "jurisdictions">>,
     transport       |-> "streamable-http",
     api_base        |-> "https://v3.openstates.org",
     host            |-> cfg.host,
     port            |-> cfg.mcp_port,
     api_configured  |-> Truthy(cfg.openstates_api_key)]

\* a variant that strips the key before testing it, as has_api_key() of the
\* tests does
StatusDictStripped(cfg, fault) ==
    [status          |-> "healthy",
     service         |-> "OpenStates MCP Server",
     version         |-> GetVersion(fault),
     tools_available |-> <<"bills", "people", "committees", "events", "jurisdictions">>,
     transport       |-> "streamable-http",
     api_base        |-> "https://v3.openstates.org",
     host            |-> cfg.host,
     port            |-> cfg.mcp_port,
     api_configured  |-> cfg.openstates_api_key \notin {NoneV, StrV(""), StrV(" ")}]

\* the dict status() returns, without the clock and process readings
StatusDict(cfg, fault) ==
    [status          |-> "healthy",
     service         |-> "OpenStates MCP Server",
     version         |-> GetVersion(fault),
     tools_available |-> <<"bills", "people", "committees", "events", "jurisdictions">>,
     transport       |-> "streamable-http",
     api_base        |-> "https://v3.openstates.org",
     host            |-> cfg.host,
     port            |-> cfg.mcp_port,
     api_configured  |-> Truthy(cfg.openstates_api_key)]

\* status(): a synchronous function, one step. It reads config and the
\* process; the psutil calls and is_docker sit outside any try block, so an
\* exception of theirs leaves the function.
Status(fault) ==
    /\ status.pc = "idle"
    /\ status' =
          IF fault \in {"metrics", "probe"}
          THEN [IdleStatus EXCEPT
                    !.pc = "done", !.fault = fault,
                    !.log = <<LogLine("info", "Status check requested", <<>>)>>,
                    !.outcome = "raised",
                    !.error = ErrorObj("Exception", fault, "", 0)]
          ELSE [IdleStatus EXCEPT
                    !.pc = "done", !.fault = fault,
                    !.log = <<LogLine("info", "Status check requested", <<>>)>>,
                    !.outcome = "returned",
                    !.snapshot = StatusDict(config, fault)]
    /\ UNCHANGED <<config, inv, net, mcp>>

\* a caller invokes the status tool
InvokeStatus ==
    /\ SetupComplete
    /\ "status" \in DOMAIN mcp.tools
    /\ \E fault \in StatusFaults : Status(fault)

\* the caller has the snapshot
RetireStatus ==
    /\ status.pc = "done"
    /\ status' = IdleStatus
    /\ UNCHANGED <<config, inv, net, mcp>>

-----------------------------------------------------------------------------
(* Specifications *)

\* one resource invocation at a time, over the whole argument space
Next ==
    \/ Setup
    \/ \E i \in DOMAIN inv :
          \/ Invoke(i)
          \/ Answer(i)
          \/ Retire(i)

Spec == Init /\ [][Next]_vars

\* invocations served at the same time
MaxInFlight == 2

\* the calls of the concurrent specification: required arguments only
ServerCalls == [op \in Ops |-> {CHOOSE a \in BaseArgs(op) : TRUE}]

\* the answers of the concurrent specification: a page of results, a 404,
\* a timeout
ServerAnswers ==
    {HttpAnswer(200, JsonBody(ResultsDoc(1))),
     HttpAnswer(404, JsonBody(DictV([detail |-> StrV("error")]))),
     FailedAnswer("ReadTimeout")}

InitServer ==
    /\ config \in ServerConfigs
    /\ inv = [i \in 1..MaxInFlight |-> IdleInv]
    /\ net = {}
    /\ status = IdleStatus
    /\ mcp = MainServer

InvokeServer(i) ==
    /\ inv[i].pc = "idle"
    /\ SetupComplete
    /\ \E op \in Dispatchable : \E args \in ServerCalls[op] : Call(i, op, args)

AnswerServer(i) ==
    /\ inv[i].pc = "awaiting"
    /\ \E answer \in ServerAnswers : Respond(i, answer)

\* the dispatcher serving resource invocations and status calls concurrently
NextServer ==
    \/ Setup
    \/ \E i \in DOMAIN inv :
          \/ InvokeServer(i)
          \/ AnswerServer(i)
          \/ Retire(i)
    \/ InvokeStatus
    \/ RetireStatus

SpecServer == InitServer /\ [][NextServer]_vars

\* an invocation and a later one, the earlier outcome still held by its caller
TwoSlots == {1, 2}

InitPair ==
    /\ config \in ServerConfigs
    /\ inv = [i \in TwoSlots |-> IdleInv]
    /\ net = {}
    /\ status = IdleStatus
    /\ mcp = MainServer

\* two invocations with the required arguments only and every answer
NextPair ==
    \/ Setup
    \/ \E i \in DOMAIN inv :
          \/ InvokeServer(i)
          \/ Answer(i)
          \/ Retire(i)

SpecPair == InitPair /\ [][NextPair]_vars

\* the environments of the key: unset, empty, only whitespace, a key
\* (pydantic-settings leaves the whitespace of a value in place)
BlankKeyEnvs ==
    KeyEnvs \cup {[EmptyEnv EXCEPT !.OPENSTATES_API_KEY = Text(" ")]}

StatusConfigs == {Construct(env) : env \in BlankKeyEnvs}

InitStatus ==
    /\ config \in StatusConfigs
    /\ inv = [i \in OneSlot |-> IdleInv]
    /\ net = {}
    /\ status = IdleStatus
    /\ mcp = MainServer

\* the status tool beside one resource invocation at a time
NextStatus ==
    \/ Setup
    \/ InvokeStatus
    \/ RetireStatus
    \/ \E i \in DOMAIN inv :
          \/ InvokeServer(i)
          \/ AnswerServer(i)
          \/ Retire(i)

SpecStatus == InitStatus /\ [][NextStatus]_vars

\* one invocation at a time with the required arguments only, every answer,
\* and the upstream free never to answer
NextLive ==
    \/ Setup
    \/ \E i \in DOMAIN inv :
          \/ InvokeServer(i)
          \/ Timeout(i)
          \/ Answer(i)
          \/ Retire(i)

\* the timer of client.get runs whatever the upstream does: an enabled
\* timeout is eventually taken unless the call ends before
SpecLive ==
    /\ Init
    /\ [][NextLive]_vars
    /\ \A i \in OneSlot : WF_vars(Timeout(i))

-----------------------------------------------------------------------------
(* Properties of the resource operations *)

\* the invocations that have started
Started == {i \in DOMAIN inv : inv[i].pc # "idle"}
\* the requests in flight that slot i issued
RequestsOf(i) == {r \in net : r.slot = i}
KeyConfigured == Truthy(config.openstates_api_key)

\* C1: with no API key configured (None or empty), every invocation of every
\* resource operation ends in the configuration error and issues no GET.
C1_NoKeyNoGet ==
    \A i \in Started :
        ~KeyConfigured =>
            /\ inv[i].pc = "done"
            /\ inv[i].outcome = "raised"
            /\ inv[i].error.type = "ValueError"
            /\ inv[i].error.text = "OPENSTATES_API_KEY not found in environment variables"
            /\ inv[i].gets = 0
            /\ RequestsOf(i) = {}

C1_Witness ==
    \E i \in Started :
        /\ config.openstates_api_key = StrV("")
        /\ inv[i].op = "get_legislators_by_location"
        /\ inv[i].outcome = "raised"
        /\ inv[i].gets = 0

\* C2: a 2xx answer with a decodable JSON body B makes the invocation return
\* exactly B, whatever JSON document B is, and never raise.
C2_ReturnsBody ==
    \A i \in Started :
        (/\ inv[i].pc = "done"
         /\ inv[i].answer.kind = "response"
         /\ inv[i].answer.code >= 200 /\ inv[i].answer.code <= 299
         /\ inv[i].answer.body.t = "json")
            => /\ inv[i].outcome = "returned"
               /\ inv[i].result = inv[i].answer.body.v

\* C3: with an API key configured an invocation issues exactly one GET: one
\* is in flight while it waits, none is issued after the answer (no retry),
\* and it never ends without having issued one.
C3_ExactlyOneGet ==
    \A i \in Started :
        KeyConfigured =>
            /\ inv[i].gets = 1
            /\ inv[i].pc = "awaiting" => Cardinality(RequestsOf(i)) = 1
            /\ inv[i].pc = "done" => RequestsOf(i) = {} /\ inv[i].answer # NoAnswer

C3_Witness ==
    \E i \in Started :
        /\ inv[i].pc = "done"
        /\ inv[i].answer.kind = "failure"
        /\ inv[i].answer.fault = "ReadTimeout"
        /\ inv[i].gets = 1

\* C4: an invocation ends in exactly one of "returned a value" or "raised an
\* error"; when a failure was detected it raises the very exception object
\* that was detected and returns nothing.
C4_SameErrorRaised ==
    \A i \in Started :
        inv[i].pc = "done" =>
            /\ inv[i].outcome \in {"returned", "raised"}
            /\ inv[i].outcome = "raised" <=> inv[i].detected # NoError
            /\ inv[i].detected # NoError =>
                    inv[i].error = inv[i].detected /\ inv[i].result = NoneV
            /\ inv[i].outcome = "returned" => inv[i].error = NoError

\* C5: the per_page sent by a list operation is 100 when the caller's per_page
\* is above 100 and the caller's per_page otherwise; clamping twice is
\* clamping once.
C5_PerPageClamped ==
    \A r \in net :
        inv[r.slot].op \in ListOps =>
            LET asked == inv[r.slot].args["per_page"].v
                sent == r.params["per_page"].v
            IN /\ asked > 100 => sent = 100
               /\ asked <= 100 => sent = asked
               /\ Clamp(sent) = sent

C5_Witness ==
    \E r \in net :
        /\ inv[r.slot].op = "get_jurisdictions"
        /\ inv[r.slot].args["per_page"].v = 101
        /\ r.params["per_page"].v = 100

\* the filter arguments of a list operation: every keyword argument but the
\* paging pair and the sort order
FilterNames(op) ==
    (Range(ScalarFields(op)) \cup Range(ListFields(op))) \ {"sort"}

\* C6: a filter the caller leaves out is not a key of the query of a list
\* operation; the keys are page, per_page and filters the caller passed, and
\* every filter passed with a non-empty value is one of them.
C6_OmittedFiltersAbsent ==
    \A r \in net :
        LET op == inv[r.slot].op
            args == inv[r.slot].args
            passed == {n \in FilterNames(op) : ~Omitted(op, args, n)}
        IN op \in ListOps =>
              /\ \A n \in FilterNames(op) :
                    Omitted(op, args, n) => n \notin DOMAIN r.params
              /\ (DOMAIN r.params) \ {"sort"} \subseteq {"page", "per_page"} \cup passed
              /\ {n \in passed : Truthy(args[n])} \subseteq DOMAIN r.params

\* C7: a list-valued argument of n >= 1 values is sent as those n values under
\* its one name, order and duplicates kept; None and the empty list send no key.
C7_ListsPreserved ==
    \A r \in net :
        LET op == inv[r.slot].op
            args == inv[r.slot].args
        IN \A n \in Range(ListFields(op)) :
              IF args[n].t = "list" /\ Len(args[n].v) >= 1
              THEN n \in DOMAIN r.params /\ r.params[n] = args[n]
              ELSE n \notin DOMAIN r.params

C7_Witness ==
    \E r \in net :
        /\ inv[r.slot].op = "search_bills"
        /\ inv[r.slot].args["subject"] = ListV(<<"a", "a">>)
        /\ r.params["subject"].v = <<"a", "a">>

\* C8: every request of a list operation has page and per_page: page is the
\* caller's page, 1 when left out; per_page left out is 10 (bills, people),
\* 20 (committees, events) or 52 (jurisdictions); no filter changes either.
C8_PagingAlwaysPresent ==
    \A r \in net :
        LET op == inv[r.slot].op
            args == inv[r.slot].args
        IN op \in ListOps =>
              /\ {"page", "per_page"} \subseteq DOMAIN r.params
              /\ r.params["page"] = args["page"]
              /\ r.params["page"].t = "int" /\ r.params["per_page"].t = "int"
              /\ Omitted(op, args, "page") => r.params["page"].v = 1
              /\ Omitted(op, args, "per_page") =>
                    r.params["per_page"].v =
                        CASE op \in {"search_bills", "search_people"} -> 10
                          [] op \in {"search_committees", "search_events"} -> 20
                          [] op = "get_jurisdictions" -> 52

C8_Witness ==
    \E r \in net :
        /\ inv[r.slot].op = "search_committees"
        /\ inv[r.slot].args["jurisdiction"] = StrV("x")
        /\ r.params["jurisdiction"] = StrV("x")
        /\ r.params["page"].v = 1
        /\ r.params["per_page"].v = 20

\* C9: get_legislators_by_location sends exactly lat and lng, the latitude
\* and the longitude, and no paging key.
C9_GeoParams ==
    \A r \in net :
        inv[r.slot].op = "get_legislators_by_location" =>
            /\ DOMAIN r.params = {"lat", "lng"}
            /\ r.params["lat"] = inv[r.slot].args["latitude"]
            /\ r.params["lng"] = inv[r.slot].args["longitude"]

C9_Witness ==
    \E r \in net :
        /\ inv[r.slot].op = "get_legislators_by_location"
        /\ r.params["lat"] = FloatV(0)
        /\ r.params["lng"] = FloatV(-77)

-----------------------------------------------------------------------------
(* Properties of the status tool *)

C11_StatusNeverRaises ==
    status.pc = "done" =>
        /\ status.outcome = "returned"
        /\ status.error = NoError
        /\ status.snapshot # NoSnapshot
        /\ status.fault = "version" => status.snapshot.version = "unknown"

-----------------------------------------------------------------------------
(* Properties of startup *)

\* C12: once setup() has run the registry holds exactly twelve distinct names,
\* the unprefixed status tool and each of the eleven resource operations under
\* its group prefix, each name bound to its own function; no resource
\* operation is registered under its bare name.
C12_RegistryNames ==
    SetupComplete =>
        /\ DOMAIN mcp.tools =
              {"status",
               "bills_search_bills", "bills_get_bill_by_id", "bills_get_bill_details",
               "people_search_people", "people_get_legislators_by_location",
               "committees_search_committees", "committees_get_committee_details",
               "events_search_events", "events_get_event_details",
               "jurisdictions_get_jurisdictions",
               "jurisdictions_get_jurisdiction_details"}
        /\ Cardinality(DOMAIN mcp.tools) = 12
        /\ \A op \in Ops : op \notin DOMAIN mcp.tools
        /\ \A op \in Ops :
              Cardinality({n \in DOMAIN mcp.tools : mcp.tools[n].fn = op}) = 1
        /\ mcp.tools["status"] = Tool("mcp", "status")
        /\ mcp.tools["people_get_legislators_by_location"] =
              Tool("people", "get_legislators_by_location")

C12_Witness ==
    /\ SetupComplete
    /\ mcp.imported = ImportOrder
    /\ "jurisdictions_get_jurisdiction_details" \in DOMAIN mcp.tools
    /\ \E i \in Started : inv[i].op = "get_jurisdiction_details"

-----------------------------------------------------------------------------
(* Properties of the request *)

\* the URLs the calls of each operation address when every argument is taken
\* as one value of its path template
EndpointUrls == [op \in Ops |-> {Url(op, a) : a \in Calls[op]}]

\* the path of the claim's template of op, filled with the arguments
TemplatePath(op, args) ==
    CASE op = "search_bills" -> "/bills"
      [] op = "get_bill_by_id" -> "/bills/ocd-bill/" \o args["bill_uuid"].v
      [] op = "get_bill_details" ->
            "/bills/" \o args["jurisdiction"].v \o "/" \o args["session"].v
                \o "/" \o args["bill_id"].v
      [] op = "search_committees" -> "/committees"
      [] op = "get_committee_details" -> "/committees/" \o args["committee_id"].v
      [] op = "search_events" -> "/events"
      [] op = "get_event_details" -> "/events/" \o args["event_id"].v
      [] op = "get_jurisdictions" -> "/jurisdictions"
      [] op = "get_jurisdiction_details" ->
            "/jurisdictions/" \o args["jurisdiction_id"].v
      [] op = "search_people" -> "/people"
      [] op = "get_legislators_by_location" -> "/people.geo"

\* C13: every GET goes to https://v3.openstates.org and to the path template
\* of its operation, and no argument makes it the URL of another operation's
\* endpoint.
C13_FixedEndpoints ==
    \A r \in net :
        LET op == inv[r.slot].op
            args == inv[r.slot].args
        IN /\ r.url = "https://v3.openstates.org" \o TemplatePath(op, args)
           /\ \A other \in Ops \ {op} : r.url \notin EndpointUrls[other]

\* C14: every GET carries the header x-api-key, its value is the configured
\* API key, a non-empty string; no GET is in flight without it.
C14_ApiKeyHeader ==
    \A r \in net :
        /\ "x-api-key" \in DOMAIN r.headers
        /\ r.headers["x-api-key"] = config.openstates_api_key
        /\ r.headers["x-api-key"].t = "str"
        /\ r.headers["x-api-key"].v # ""

C14_Witness ==
    \E r \in net :
        /\ inv[r.slot].op = "search_events"
        /\ inv[r.slot].pc = "awaiting"
        /\ r.headers["x-api-key"] = StrV("k")

\* C20: every GET of search_bills has the sort parameter, equal to the token
\* the caller passed, whatever it is, and to "updated_desc" when the caller
\* passed none; a returned body has its results in the order of the answer.
C20_SortPassedThrough ==
    /\ \A r \in net :
          LET args == inv[r.slot].args IN
          inv[r.slot].op = "search_bills" =>
              /\ "sort" \in DOMAIN r.params
              /\ r.params["sort"] = args["sort"]
              /\ Omitted("search_bills", args, "sort") =>
                    r.params["sort"] = StrV("updated_desc")
    /\ \A i \in Started :
          (/\ inv[i].op = "search_bills" /\ inv[i].pc = "done"
           /\ inv[i].outcome = "returned") =>
              /\ inv[i].result.t = "dict"
              /\ "results" \in DOMAIN inv[i].answer.body.v.v =>
                    inv[i].result.v["results"] = inv[i].answer.body.v.v["results"]

-----------------------------------------------------------------------------
(* Properties of the log *)

\* the invocations that ended in a failure after the key check
FailedAfterKeyCheck ==
    {i \in Started : inv[i].pc = "done" /\ inv[i].gets > 0 /\ inv[i].outcome = "raised"}

\* the error-level lines of a log
ErrorLines(log) == {k \in DOMAIN log : log[k].level = "error"}

\* C15: after the key check, the error line of a failure starts with "HTTP
\* error" exactly when the upstream answered with a status outside 200..299;
\* a transport failure and every other failure in the request block is
\* logged with "API error".
C15_ErrorPrefix ==
    \A i \in FailedAfterKeyCheck :
        LET a == inv[i].answer
            nonSuccess == a.kind = "response" /\ ~(200 <= a.code /\ a.code <= 299)
        IN \A k \in ErrorLines(inv[i].log) :
              /\ inv[i].log[k].text \in {"HTTP error: {}", "API error: {}"}
              /\ inv[i].log[k].text = "HTTP error: {}" <=> nonSuccess
              /\ a.kind = "failure" => inv[i].log[k].text = "API error: {}"

C15_Witness ==
    \E i \in FailedAfterKeyCheck :
        /\ inv[i].answer.kind = "response" /\ inv[i].answer.code = 300
        /\ \E k \in ErrorLines(inv[i].log) : inv[i].log[k].text = "HTTP error: {}"

\* C16: the log of an invocation is one info line, logged before the key check
\* and before any GET, followed at the end by exactly one more line: an info
\* line when it returns, an error line when it raises; nothing else.
C16_LogShape ==
    \A i \in Started :
        LET log == inv[i].log IN
        /\ Len(log) >= 1
        /\ log[1] = StartLine(inv[i].op, inv[i].args)
        /\ log[1].level = "info"
        /\ inv[i].pc = "awaiting" => Len(log) = 1
        /\ inv[i].pc = "done" /\ inv[i].outcome = "returned" =>
              /\ Len(log) = 2
              /\ log[2].level = "info"
        /\ inv[i].pc = "done" /\ inv[i].outcome = "raised" =>
              /\ Len(log) = 2
              /\ log[2].level = "error"

\* the list invocations whose GET was answered 2xx with a JSON document
ListAnswered ==
    {i \in Started :
        /\ inv[i].pc = "done" /\ inv[i].op \in ListOps
        /\ inv[i].answer.kind = "response"
        /\ 200 <= inv[i].answer.code /\ inv[i].answer.code <= 299
        /\ inv[i].answer.body.t = "json"}

\* C17: a list operation answered 2xx logs "Found N <things>" with N the
\* length of the body's results list, 0 when the body has no results field,
\* and returns the body unchanged; counting the results never makes the
\* invocation fail.
C17_FoundCount ==
    \A i \in ListAnswered :
        LET data == inv[i].answer.body.v
            line == inv[i].log[Len(inv[i].log)]
        IN /\ inv[i].outcome = "returned"
           /\ inv[i].result = data
           /\ line.level = "info"
           /\ data.t = "dict" /\ "results" \notin DOMAIN data.v =>
                 line = FoundLine(inv[i].op, 0)
           /\ (/\ data.t = "dict" /\ "results" \in DOMAIN data.v
               /\ data.v["results"].t = "list") =>
                 line = FoundLine(inv[i].op, Len(data.v["results"].v))

-----------------------------------------------------------------------------
(* Properties of concurrent invocations *)

\* what the invocation of op with args does when it is the only one served:
\* the request it issues (none without a key) and, once client.get has the
\* outcome answer, its log, outcome, error and result
Alone(i, op, args, cfg, answer) ==
    LET check == ValidateApiKey(cfg) IN
    IF ~check.ok
    THEN [requests |-> {},
          log      |-> <<StartLine(op, args),
                         LogLine("error", "{}", <<StrV(check.error.text)>>)>>,
          outcome  |-> "raised",
          error    |-> KeyCheckRaise(op, check.error),
          result   |-> NoneV]
    ELSE LET end == AfterGet(op, args, answer) IN
         [requests |-> {Request(i, op, args, check.key)},
          log      |-> <<StartLine(op, args)>> \o end.log,
          outcome  |-> end.outcome,
          error    |-> end.error,
          result   |-> end.result]

\* the invocation of slot i is where it would be if it ran alone
AsAlone(i) ==
    LET me == inv[i]
        alone == Alone(i, me.op, me.args, config, me.answer)
    IN /\ me.pc = "awaiting" =>
             /\ RequestsOf(i) = alone.requests
             /\ me.log = <<StartLine(me.op, me.args)>>
             /\ me.outcome = "none"
       /\ me.pc = "done" =>
             /\ RequestsOf(i) = {}
             /\ me.log = alone.log
             /\ me.outcome = alone.outcome
             /\ me.error = alone.error
             /\ me.result = alone.result

-----------------------------------------------------------------------------
(* Properties of the configuration *)

\* C19: Config() fails when MCP_PORT is not an integer and when the timeout
\* is not a positive integer; so whenever the process has started the
\* configured timeout is greater than zero.
C19_ConfigValidated ==
    /\ \A env \in Envs :
          /\ env.MCP_PORT.t = "text" => ~Construct(env).loaded
          /\ env.OPENSTATES_TIMEOUT.t = "text" => ~Construct(env).loaded
          /\ (env.OPENSTATES_TIMEOUT.t = "numeral" /\ env.OPENSTATES_TIMEOUT.v <= 0)
                => ~Construct(env).loaded
    /\ config.loaded => config.openstates_timeout > 0

\* the configuration with the same API key and every other field at its default
KeyOnly(cfg) ==
    [DefaultConfig EXCEPT !.loaded = cfg.loaded,
                          !.openstates_api_key = cfg.openstates_api_key]

\* C21: the settings no handler reads (the timeout fields, the base URL, the
\* retry, rate limit and cache settings) change nothing: whatever their
\* values, every invocation issues the request, logs the lines and reaches
\* the outcome of the run that has the same API key and the defaults, with
\* the fixed host and the 30-second timeout.
C21_UnusedSettings ==
    \A i \in Started :
        LET me == inv[i]
            ref == Alone(i, me.op, me.args, KeyOnly(config), me.answer)
        IN /\ \A r \in RequestsOf(i) :
                 /\ r.timeout = 30
                 /\ r.url = "https://v3.openstates.org" \o TemplatePath(me.op, me.args)
           /\ me.pc = "awaiting" =>
                 /\ RequestsOf(i) = ref.requests
                 /\ me.log = <<StartLine(me.op, me.args)>>
           /\ me.pc = "done" =>
                 /\ me.log = ref.log
                 /\ me.outcome = ref.outcome
                 /\ me.error = ref.error
                 /\ me.result = ref.result

C21_Witness ==
    \E i \in Started :
        /\ config.openstates_base_url = "https://example.org"
        /\ inv[i].pc = "done" /\ inv[i].outcome = "returned"
        /\ inv[i].op = "get_jurisdictions"

-----------------------------------------------------------------------------
(* Properties of termination and of the client *)

\* C22: an invocation that waits for the upstream eventually ends; when the
\* 30-second timeout ends it, it ends like any transport failure: one error
\* line "API error", the timeout error raised, one GET and no more.
C22_Terminates ==
    /\ \A i \in OneSlot : (inv[i].pc = "awaiting") ~> (inv[i].pc = "done")
    /\ [](\A i \in Started :
            (inv[i].pc = "done" /\ inv[i].answer = FailedAnswer("ReadTimeout")) =>
                /\ inv[i].outcome = "raised"
                /\ inv[i].error.type = "ReadTimeout"
                /\ inv[i].gets = 1
                /\ RequestsOf(i) = {}
                /\ Cardinality(ErrorLines(inv[i].log)) = 1
                /\ inv[i].log[Len(inv[i].log)].text = "API error: {}")
    /\ [](\A r \in net : r.timeout = 30)

C22_Witness ==
    \E i \in Started :
        /\ inv[i].pc = "done"
        /\ inv[i].answer = FailedAnswer("ReadTimeout")
        /\ inv[i].error.type = "ReadTimeout"
        /\ inv[i].op = "search_people"

\* the invocations waiting for the upstream, and the clients that are open
InFlight == {i \in DOMAIN inv : inv[i].pc = "awaiting"}
OpenClients == {i \in DOMAIN inv : inv[i].client = "open"}

\* C23: an invocation that passes the key check opens one client of its own,
\* open exactly while its GET is in flight and closed when the invocation
\* has ended, whatever the exit; one that fails the key check opens none;
\* the open clients are never more than the invocations in flight.
C23_ClientScoped ==
    /\ \A i \in DOMAIN inv :
          /\ inv[i].pc = "idle" => inv[i].client = "none"
          /\ inv[i].pc = "awaiting" => inv[i].client = "open"
          /\ inv[i].pc = "done" /\ inv[i].gets = 0 => inv[i].client = "none"
          /\ inv[i].pc = "done" /\ inv[i].gets > 0 => inv[i].client = "closed"
    /\ \A r \in net : inv[r.slot].client = "open"
    /\ \A i \in OpenClients : Cardinality(RequestsOf(i)) = 1
    /\ Cardinality(OpenClients) <= Cardinality(InFlight)
    /\ InFlight = {} => OpenClients = {}

C23_Witness ==
    \E i, j \in DOMAIN inv :
        /\ i # j
        /\ inv[i].client = "open" /\ inv[i].pc = "awaiting"
        /\ inv[j].client = "closed" /\ inv[j].outcome = "raised"
        /\ inv[j].answer.kind = "response" /\ inv[j].answer.code = 404

-----------------------------------------------------------------------------
(* Properties of the process-wide state *)

\* C24: no step of any operation (resource invocation, status, setup)
\* changes a field of the configuration, so every invocation's key check
\* answers as the configuration of startup says.
C24_ConfigReadOnly ==
    /\ [][config' = config]_vars
    /\ [](\A i \in Started :
            /\ inv[i].gets > 0 <=> Truthy(config.openstates_api_key)
            /\ inv[i].pc = "done" /\ inv[i].gets = 0 =>
                  inv[i].detected = KeyMissingError)

C24_Witness ==
    \E i, j \in DOMAIN inv :
        /\ i # j
        /\ inv[i].pc = "done" /\ inv[i].outcome = "raised" /\ inv[i].gets = 1
        /\ inv[j].pc = "awaiting" /\ inv[j].gets = 1
        /\ status.pc = "done"
        /\ config.openstates_api_key = StrV("k")

\* the dispatcher is ready: the five groups are imported
Ready == Len(mcp.imported) = 5

\* C25: the dispatcher goes from unconfigured to ready once and stays ready:
\* the groups are imported in the order bills, people, committees, events,
\* jurisdictions, nothing is served before the last import, and once ready
\* no step adds, removes or renames a tool.
C25_ReadyOnce ==
    /\ [](\E k \in 0..5 :
            mcp.imported =
                SubSeq(<<"bills", "people", "committees", "events", "jurisdictions">>,
                       1, k))
    /\ [](~Ready =>
            /\ \A i \in DOMAIN inv : inv[i].pc = "idle"
            /\ status.pc = "idle"
            /\ net = {})
    /\ [][Ready => mcp' = mcp]_vars
    /\ [][mcp' # mcp =>
            /\ Len(mcp'.imported) = Len(mcp.imported) + 1
            /\ DOMAIN mcp.tools \subseteq DOMAIN mcp'.tools
            /\ inv' = inv /\ status' = status /\ net' = net]_vars

C25_Witness ==
    /\ Ready
    /\ mcp.imported = <<"bills", "people", "committees", "events", "jurisdictions">>
    /\ Cardinality(DOMAIN mcp.tools) = 12
    /\ \E i \in Started : inv[i].pc = "done" /\ inv[i].outcome = "raised"
    /\ status.pc = "done" /\ status.outcome = "raised"

-----------------------------------------------------------------------------
(* Properties of a sequence of invocations *)

\* C26: every invocation that passes the key check issues one GET of its own
\* and returns the body of that GET only: a call with the arguments of an
\* earlier call issues a GET again and returns its own answer's body, also
\* when the earlier answer was another; no further GET follows an answer.
C26_NoCache ==
    /\ [](\A i \in Started :
            /\ KeyConfigured => inv[i].gets = 1
            /\ inv[i].pc = "done" /\ inv[i].outcome = "returned" =>
                  /\ inv[i].answer.kind = "response"
                  /\ inv[i].result = inv[i].answer.body.v)
    /\ [][\A i \in DOMAIN inv :
            /\ (inv[i].pc = "idle" /\ inv'[i].pc # "idle" /\ KeyConfigured) =>
                  /\ inv'[i].pc = "awaiting"
                  /\ Cardinality(net') = Cardinality(net) + 1
                  /\ \E r \in net' \ net : r.slot = i
            /\ (inv[i].pc = "awaiting" /\ inv'[i].pc = "done") =>
                  /\ net' = {r \in net : r.slot # i}
                  /\ inv'[i].gets = inv[i].gets]_vars

C26_Witness ==
    \E i, j \in DOMAIN inv :
        /\ i # j
        /\ inv[i].op = "search_bills" /\ inv[j].op = "search_bills"
        /\ inv[i].args = inv[j].args
        /\ inv[i].pc = "done" /\ inv[i].outcome = "returned"
        /\ inv[j].pc = "done" /\ inv[j].outcome = "returned"
        /\ inv[i].result = ResultsDoc(1) /\ inv[j].result = ResultsDoc(2)
        /\ inv[i].gets = 1 /\ inv[j].gets = 1

-----------------------------------------------------------------------------
(* Properties shared by the handlers *)

\* C27: the five list operations decide alike: a scalar filter is sent by any
\* of them exactly when search_bills would send a filter of that value
\* (omitted, None, "", False are left out, a non-empty value is sent), and a
\* fault (missing key, non-2xx, transport failure) is logged and raised
\* alike, the detected error itself being raised.
C27_SameProcedure ==
    /\ \A r \in net :
          LET op == inv[r.slot].op
              args == inv[r.slot].args
          IN op \in ListOps =>
                \A n \in Range(ScalarFields(op)) :
                    n \in DOMAIN r.params <=> KeepField("search_bills", args[n])
    /\ \A i \in Started :
          (inv[i].op \in ListOps /\ inv[i].pc = "done" /\ inv[i].outcome = "raised") =>
              LET twin == Alone(i, "search_bills",
                                [n \in ParamNames("search_bills") |->
                                    Default("search_bills", n)],
                                config, inv[i].answer)
              IN /\ inv[i].error = inv[i].detected
                 /\ inv[i].error = twin.error
                 /\ inv[i].log[Len(inv[i].log)] = twin.log[Len(twin.log)]

\* C28: an invocation given a Context and the same invocation given none do
\* the same: the lines sent to the Context in the one are the lines sent to
\* the process-wide logger in the other, level and message alike, each line
\* goes to exactly one destination, and request and outcome are the same.
C28_SinkEquivalent ==
    \A i \in Started :
        LET me == inv[i]
            bare == Alone(i, me.op, [me.args EXCEPT !["ctx"] = NoneV], config, me.answer)
        IN /\ me.args["ctx"] = CtxV => me.sink = me.log /\ me.logger = <<>>
           /\ me.args["ctx"] = NoneV => me.logger = me.log /\ me.sink = <<>>
           /\ Len(me.sink) + Len(me.logger) = Len(me.log)
           /\ me.pc = "awaiting" => RequestsOf(i) = bare.requests
           /\ me.pc = "done" =>
                 /\ me.log = bare.log
                 /\ me.outcome = bare.outcome
                 /\ me.error = bare.error
                 /\ me.result = bare.result

C28_Witness ==
    \E i \in Started :
        /\ inv[i].args["ctx"] = CtxV
        /\ inv[i].pc = "done" /\ inv[i].outcome = "raised"
        /\ inv[i].answer.kind = "response" /\ inv[i].answer.code = 500
        /\ Len(inv[i].sink) = 2 /\ inv[i].logger = <<>>
        /\ inv[i].sink[2].level = "error"

\* C29: for each of the five list operations and every integer per_page the
\* caller supplies, zero and negative values included, the per_page sent to
\* the upstream lies in 1..100.
C29_PerPageInRange ==
    \A r \in net :
        inv[r.slot].op \in ListOps =>
            /\ "per_page" \in DOMAIN r.params
            /\ r.params["per_page"].v \in 1..PerPageLimit

-----------------------------------------------------------------------------
(* The status snapshot and the key *)

\* the fields of the snapshot in the model
SnapshotFields ==
    {"status", "service", "version", "tools_available", "transport",
     "api_base", "host", "port", "api_configured"}

====
